---- MODULE Spec2Model ----
(***************************************************************************)
(* OtakuOracle: the query-parsing, fetching and ranking pipeline of        *)
(* recommender.py (parse_user_request, the four fetchers with their two    *)
(* JSON caches, recommend_anime, get_default_recs).                        *)
(*                                                                         *)
(* Text is modelled at two grains.  A title is a sequence of characters;   *)
(* a query is a sequence of words, where the word " " stands for a run of  *)
(* whitespace.  A url is an opaque identifier (only equality is used).     *)
(* Scores are in hundredths of a point (8.50 is 850), so the threshold 7   *)
(* is 700 and AniList's averageScore/10 is averageScore*10 hundredths.     *)
(***************************************************************************)
EXTENDS Integers, Sequences, FiniteSets, TLC

(* Python's None, for an optional number (episodes, score, max_episodes)   *)
(* and for the absent rating preference.                                   *)
None == -1
NoPref == "None"

(***************************************************************************)
(* Bounds of the model.                                                    *)
(***************************************************************************)
(* Calls made to the recommender by the presentation layer in one run.     *)
MaxCalls == 2
(* Lists up to this length are shuffled into every permutation; longer     *)
(* lists into their rotations and reversed rotations only.                 *)
MaxShuffleLen == 3

(***************************************************************************)
(* Generic sequence helpers.                                               *)
(***************************************************************************)
Range(s) == {s[i] : i \in 1..Len(s)}

Take(s, n) == SubSeq(s, 1, IF n < Len(s) THEN n ELSE Len(s))

(* All orderings of the elements of a finite set, as sequences. *)
RECURSIVE SeqsOf(_)
SeqsOf(S) ==
    IF S = {} THEN {<<>>}
    ELSE UNION {{<<x>> \o t : t \in SeqsOf(S \ {x})} : x \in S}

(***************************************************************************)
(* Python string operations used by the code.                              *)
(***************************************************************************)
(* str.lower on one character *)
LowerChar(c) ==
    CASE c = "A" -> "a"
      [] c = "B" -> "b"
      [] c = "C" -> "c"
      [] OTHER -> c

(* str.lower on a title *)
StrLower(s) == [i \in 1..Len(s) |-> LowerChar(s[i])]

(* str.strip: leading and trailing whitespace removed *)
RECURSIVE LStrip(_)
LStrip(s) == IF s # <<>> /\ Head(s) = " " THEN LStrip(Tail(s)) ELSE s

RECURSIVE RStrip(_)
RStrip(s) ==
    IF s # <<>> /\ s[Len(s)] = " " THEN RStrip(SubSeq(s, 1, Len(s) - 1)) ELSE s

Strip(s) == RStrip(LStrip(s))

(* s.split(sep)[0]: the text before the first occurrence of sep *)
RECURSIVE SplitFirst(_, _)
SplitFirst(s, sep) ==
    IF s = <<>> \/ Head(s) = sep THEN <<>>
    ELSE <<Head(s)>> \o SplitFirst(Tail(s), sep)

(* str.lower on one word of a query *)
LowerWord(w) ==
    CASE w = "Naruto" -> "naruto"
      [] w = "Romance" -> "romance"
      [] w = "Action" -> "action"
      [] OTHER -> w

(* str.lower on a query *)
QueryLower(q) == [i \in 1..Len(q) |-> LowerWord(q[i])]

(* str.isdigit and int() on a token *)
IsDigit(w) == w \in {"20", "5"}
IntOf(w) == CASE w = "20" -> 20 [] w = "5" -> 5 [] OTHER -> 0

(* " ".join of the words of a span *)
RECURSIVE JoinWords(_)
JoinWords(ws) ==
    IF ws = <<>> THEN ""
    ELSE IF Len(ws) = 1 THEN ws[1]
    ELSE ws[1] \o " " \o JoinWords(Tail(ws))

(* Python truthiness of an optional number: None and 0 are falsy *)
Truthy(x) == x # None /\ x # 0

(***************************************************************************)
(* Catalog records and the answers the remote catalogs can give.           *)
(***************************************************************************)
Rec(t, u, e, s) == [title |-> t, url |-> u, episodes |-> e, score |-> s]

rA  == Rec(<<"A", "a", ":", "1">>, 1, 12, 850)
rA2 == Rec(<<"a", "A", " ", "-", " ", "2">>, 2, 24, 650)
rB  == Rec(<<" ", "B">>, 3, None, None)
rB2 == Rec(<<"b", "-", "a", ":", "a">>, 1, 20, 700)
rC  == Rec(<<"c", ":", "a", "-", "b">>, 4, 0, 0)

BigTitles == <<"d", "e", "f", "g", "h", "i", "j", "k", "l", "m", "n", "o">>
BigEpisodes == <<12, 24, None, 20, 1, 13, 0, 12, 26, 12, None, 21>>
BigScores == <<900, 650, None, 700, 650, 820, 0, 699, 900, 650, None, 700>>
BigRec(i) == Rec(<<BigTitles[i]>>, 100 + i, BigEpisodes[i], BigScores[i])

(* One page of the primary catalog's anime listing, by search and by genre *)
ListingPages == { <<>>, <<rA, rA2, rB>>, <<rB2, rC>> }
GenrePages == { <<>>, <<rA, rA2, rB, rB2, rC>> }

(* One page of the primary catalog's top listing *)
TopPages == { <<>>,
              [i \in 1..6 |-> BigRec(i)],
              [i \in 1..6 |-> BigRec(6 + i)] }

(* The media list of one answer of the secondary catalog: romanized title, *)
(* site url, average score on 0..100 (or null), episode count (or null).   *)
Media(t, u, a, e) == [romaji |-> t, siteUrl |-> u, averageScore |-> a, episodes |-> e]

MediaLists == { <<>>,
                << Media(<<"A", "a">>, 11, 85, 12),
                   Media(<<"a", "a", "-", "2">>, 12, None, 30),
                   Media(<<"B">>, 13, 0, None),
                   Media(<<"c">>, 11, 69, 20) >> }

(***************************************************************************)
(* fetch_mal_genres: the genre directory, lowercase name -> id.            *)
(***************************************************************************)
GenreListing == { [name |-> "Romance", mal_id |-> 22], [name |-> "Action", mal_id |-> 1] }

MAL_GENRES ==
    [n \in {LowerWord(g.name) : g \in GenreListing} |->
        (CHOOSE g \in GenreListing : LowerWord(g.name) = n).mal_id]

(***************************************************************************)
(* extract_keywords and parse_user_request.                                *)
(***************************************************************************)
(* The words the NLP pipeline sees: the lowercased text without whitespace *)
NlpWords(text) == SelectSeq(QueryLower(text), LAMBDA w : w # " ")

(* What the pipeline can emit: single words (the NOUN/ADJ tokens) and the  *)
(* noun chunk spanning a multi-word text.  Which of them it emits is the   *)
(* tagger's decision.                                                      *)
KeywordPool(text) ==
    LET ws == NlpWords(text)
    IN  Range(ws) \cup (IF Len(ws) > 1 THEN {JoinWords(ws)} ELSE {})

(* list(phrases.union(tokens)): a set turned into a list, in any order *)
extract_keywords(text) == UNION { SeqsOf(K) : K \in SUBSET KeywordPool(text) }

(* list.index: position of the first occurrence *)
IndexOf(s, x) == CHOOSE i \in 1..Len(s) : s[i] = x /\ \A j \in 1..(i - 1) : s[j] # x

parse_user_request(tokens) ==
    LET genres == SelectSeq(tokens, LAMBDA tok : tok \in DOMAIN MAL_GENRES)
        max_eps ==
            IF "under" \in Range(tokens)
            THEN LET idx == IndexOf(tokens, "under")
                 IN  IF idx + 1 <= Len(tokens) /\ IsDigit(tokens[idx + 1])
                     THEN IntOf(tokens[idx + 1])
                     ELSE None
            ELSE None
        rating_pref ==
            IF "hidden" \in Range(tokens) /\ "gem" \in Range(tokens)
            THEN "hidden gem" ELSE NoPref
    IN  [genres |-> genres, max_episodes |-> max_eps, rating_pref |-> rating_pref]

(***************************************************************************)
(* The post-processing steps of recommend_anime.                           *)
(***************************************************************************)
(* lines 149-153: first occurrence of each url wins, order kept *)
RECURSIVE DedupUrlFrom(_, _)
DedupUrlFrom(s, seen) ==
    IF s = <<>> THEN <<>>
    ELSE IF Head(s).url \notin seen
         THEN <<Head(s)>> \o DedupUrlFrom(Tail(s), seen \cup {Head(s).url})
         ELSE DedupUrlFrom(Tail(s), seen)

DedupUrl(s) == DedupUrlFrom(s, {})

(* the base title compared case-sensitively *)
BaseTitleCased(title) == Strip(SplitFirst(SplitFirst(title, ":"), "-"))

(* line 157-158: a["title"].split(":")[0].split("-")[0].strip(), lowered *)
BaseTitle(title) == StrLower(Strip(SplitFirst(SplitFirst(title, ":"), "-")))

(* lines 155-160: first occurrence of each base title wins, order kept *)
RECURSIVE DedupBaseFrom(_, _)
DedupBaseFrom(s, seen) ==
    IF s = <<>> THEN <<>>
    ELSE IF BaseTitle(Head(s).title) \notin seen
         THEN <<Head(s)>> \o DedupBaseFrom(Tail(s), seen \cup {BaseTitle(Head(s).title)})
         ELSE DedupBaseFrom(Tail(s), seen)

DedupBase(s) == DedupBaseFrom(s, {})

(* the episode filter keeping records whose count is unknown *)
EpisodeFilterKeepUnknown(s, max_episodes) ==
    IF max_episodes # None
    THEN SelectSeq(s, LAMBDA a : ~Truthy(a.episodes) \/ a.episodes <= max_episodes)
    ELSE s

(* lines 162-163 *)
EpisodeFilter(s, max_episodes) ==
    IF max_episodes # None
    THEN SelectSeq(s, LAMBDA a : Truthy(a.episodes) /\ a.episodes <= max_episodes)
    ELSE s

(* lines 165-166; the threshold 7, in hundredths *)
GemThreshold == 700

(* the hidden-gem filter with the threshold included *)
HiddenGemFilterInclusive(s, rating_pref) ==
    IF rating_pref = "hidden gem"
    THEN SelectSeq(s, LAMBDA a : Truthy(a.score) /\ a.score <= GemThreshold)
    ELSE s

HiddenGemFilter(s, rating_pref) ==
    IF rating_pref = "hidden gem"
    THEN SelectSeq(s, LAMBDA a : Truthy(a.score) /\ a.score < GemThreshold)
    ELSE s

(* the sort key: a.get("score") or 0 *)
SortKey(a) == IF Truthy(a.score) THEN a.score ELSE 0

(* sorted(..., reverse=True) is stable: x goes behind every element whose  *)
(* key is at least its own.                                                *)
RECURSIVE InsertDesc(_, _)
InsertDesc(s, x) ==
    IF s = <<>> THEN <<x>>
    ELSE IF SortKey(Head(s)) >= SortKey(x)
         THEN <<Head(s)>> \o InsertDesc(Tail(s), x)
         ELSE <<x>> \o s

(* the sort left out *)
Unsorted(s) == s

RECURSIVE SortedDesc(_)
SortedDesc(s) ==
    IF s = <<>> THEN <<>>
    ELSE InsertDesc(SortedDesc(SubSeq(s, 1, Len(s) - 1)), s[Len(s)])

(* the truncation left out *)
TopNAll(s) == s

(* [:10] *)
TopCount == 10
TopN(s) == Take(s, TopCount)

(* random.shuffle: the orders it can leave the list in *)
Rotate(s, k) == [i \in 1..Len(s) |-> s[((i + k - 1) % Len(s)) + 1]]
Reverse(s) == [i \in 1..Len(s) |-> s[Len(s) + 1 - i]]

Shuffles(s) ==
    IF Len(s) <= MaxShuffleLen
    THEN { [i \in 1..Len(s) |-> s[p[i]]] : p \in SeqsOf(1..Len(s)) }
    ELSE { Rotate(s, k) : k \in 0..(Len(s) - 1) }
         \cup { Reverse(Rotate(s, k)) : k \in 0..(Len(s) - 1) }

(* line 170 / 177 *)
Project(s) == [i \in 1..Len(s) |-> [title |-> s[i].title, url |-> s[i].url]]

(***************************************************************************)
(* The cache files.  A file is absent, holds text json cannot parse, or    *)
(* holds a mapping from cache key to a list of records.                    *)
(***************************************************************************)
EmptyMap == <<>>
AbsentFile == [st |-> "absent", map |-> EmptyMap]
MalformedFile == [st |-> "malformed", map |-> EmptyMap]

(* _load_cache without the os.path.exists test: open() raises on an absent file *)
LoadCacheNoExistsTest(file) ==
    IF file.st = "ok"
    THEN [raised |-> FALSE, cache |-> file.map]
    ELSE [raised |-> TRUE, cache |-> EmptyMap]

(* _load_cache: the mapping read, or the exception json.load raises *)
_load_cache(file) ==
    IF file.st # "absent"
    THEN IF file.st = "malformed"
         THEN [raised |-> TRUE, cache |-> EmptyMap]
         ELSE [raised |-> FALSE, cache |-> file.map]
    ELSE [raised |-> FALSE, cache |-> EmptyMap]

(* _save_cache: the file overwritten with the whole mapping *)
_save_cache(cache) == [st |-> "ok", map |-> cache]

(* the mapping replaced by the new entry alone *)
PutAlone(cache, key, data) == [k \in {key} |-> data]

(* cache[key] = data *)
Put(cache, key, data) == [k \in DOMAIN cache \cup {key} |-> IF k = key THEN data ELSE cache[k]]

(* fetch_by_genre's cache key, f"genre_{genre_id}_p{pages}" *)
GenreKey(genre_id, pages) == <<genre_id, pages>>

(* fetch_anilist's cache key, query.lower() *)
AnilistKey(q) == QueryLower(q)

(* fetch_anilist, lines 125-129: one media object to one record *)
FromMedia(m) ==
    Rec(m.romaji, m.siteUrl,
        IF Truthy(m.averageScore) THEN m.averageScore * 10 ELSE m.averageScore,
        m.episodes)

AnilistResults(media) == [i \in 1..Len(media) |-> FromMedia(media[i])]

(***************************************************************************)
(* State.                                                                  *)
(***************************************************************************)
VARIABLES
    pc,            \* where the running call stands; "idle" between calls
    fn,            \* the entry point running or last run
    query,         \* recommend_anime's argument
    tokens,        \* parse_user_request's token list (its local)
    parsed,        \* the parsed intent
    gi,            \* index into parsed.genres of the genre being fetched
    page,          \* page number of the next request of a paginated fetch
    all_data,      \* a fetcher's accumulated records
    candidates,    \* the candidate list as fetched (line 147)
    filtered,      \* the candidate list after deduplication and filters (line 166)
    top10,         \* the ranked, truncated records (line 169 / 176)
    result,        \* the list returned
    outcome,       \* "running", "ok" (returned) or "error" (raised)
    error,         \* the exception raised
    calls,         \* the fetcher calls of the running call, in order
    genre_file,    \* data/genre_cache.json
    anilist_file,  \* data/anilist_cache.json
    ncalls         \* calls made so far

vars == <<pc, fn, query, tokens, parsed, gi, page, all_data, candidates, filtered,
          top10, result, outcome, error, calls, genre_file, anilist_file, ncalls>>

Queries == { <<>>, <<" ">>,
             <<"romance", "under", "20">>,
             <<"action", "hidden", "gem">>,
             <<"romance", "action">>,
             <<"naruto">>, <<"Naruto">> }

NoIntent == [genres |-> <<>>, max_episodes |-> None, rating_pref |-> NoPref]

Init ==
    /\ pc = "idle"
    /\ fn = "none"
    /\ query = <<>>
    /\ tokens = <<>>
    /\ parsed = NoIntent
    /\ gi = 0
    /\ page = 0
    /\ all_data = <<>>
    /\ candidates = <<>>
    /\ filtered = <<>>
    /\ top10 = <<>>
    /\ result = <<>>
    /\ outcome = "none"
    /\ error = "none"
    /\ calls = <<>>
    /\ genre_file \in {AbsentFile, MalformedFile}
    /\ anilist_file \in {AbsentFile, MalformedFile}
    /\ ncalls = 0

(* query.strip() is truthy *)
NonBlank(q) == Strip(q) # <<>>

(* One entry of the call history: the fetcher, the number of candidates    *)
(* held when it was called, the remote requests it issued, whether one of  *)
(* them failed, whether the cache answered, and the number of records it   *)
(* returned (None until it returns).                                       *)
CallEntry(f, before) ==
    [fetcher |-> f, before |-> before, reqs |-> 0, failed |-> FALSE, hit |-> FALSE, got |-> None]

LastCall == calls[Len(calls)]
UpdLast(e) == [calls EXCEPT ![Len(calls)] = e]

(* Where recommend_anime goes once the genre loop or the search is done    *)
(* (line 144), and once the secondary catalog is done (line 146).          *)
AfterAnilist(cands) == IF cands = <<>> THEN "top" ELSE "post"
(* the secondary catalog consulted for a blank query too *)
AfterPrimaryAnyQuery(cands) == IF cands = <<>> THEN "anilist" ELSE AfterAnilist(cands)

AfterPrimary(cands) ==
    IF cands = <<>> /\ NonBlank(query) THEN "anilist" ELSE AfterAnilist(cands)

(* The page counts recommend_anime and get_default_recs pass *)
GenrePagesArg == 2
SearchPagesArg == 1
TopPagesArg == 2

(* lines 148-166: what is left of the fetched candidates *)
Survivors(cands, p) ==
    HiddenGemFilter(EpisodeFilter(DedupBase(DedupUrl(cands)), p.max_episodes),
                    p.rating_pref)

(* lines 168-169 / 175-176: the lists shuffle, sort and truncation can give *)
Rankings(s) == { TopN(SortedDesc(sh)) : sh \in Shuffles(s) }

(***************************************************************************)
(* Entry points.                                                           *)
(***************************************************************************)
(* recommend_anime(query) is called *)
CallRecommend ==
    /\ pc = "idle"
    /\ ncalls < MaxCalls
    /\ \E q \in Queries : query' = q
    /\ tokens' = <<>>
    /\ fn' = "recommend_anime"
    /\ pc' = "extract"
    /\ ncalls' = ncalls + 1
    /\ parsed' = NoIntent
    /\ gi' = 0 /\ page' = 0 /\ all_data' = <<>>
    /\ candidates' = <<>> /\ filtered' = <<>> /\ top10' = <<>> /\ result' = <<>>
    /\ outcome' = "running" /\ error' = "none" /\ calls' = <<>>
    /\ UNCHANGED <<genre_file, anilist_file>>

(* get_default_recs() is called *)
CallDefault ==
    /\ pc = "idle"
    /\ ncalls < MaxCalls
    /\ fn' = "get_default_recs"
    /\ pc' = "top"
    /\ ncalls' = ncalls + 1
    /\ query' = <<>> /\ tokens' = <<>> /\ parsed' = NoIntent
    /\ gi' = 0 /\ page' = 0 /\ all_data' = <<>>
    /\ candidates' = <<>> /\ filtered' = <<>> /\ top10' = <<>> /\ result' = <<>>
    /\ outcome' = "running" /\ error' = "none" /\ calls' = <<>>
    /\ UNCHANGED <<genre_file, anilist_file>>

(* parse_user_request, line 35: the keywords are extracted *)
ExtractKeywords ==
    /\ pc = "extract"
    /\ \E t \in extract_keywords(query) : tokens' = t
    /\ pc' = "parse"
    /\ UNCHANGED <<fn, query, parsed, gi, page, all_data, candidates, filtered, top10,
                   result, outcome, error, calls, genre_file, anilist_file, ncalls>>

(* parse_user_request returns; recommend_anime picks its first source      *)
(* (lines 136-143)                                                         *)
ParseRequest ==
    /\ pc = "parse"
    /\ LET p == parse_user_request(tokens)
       IN  /\ parsed' = p
           /\ IF p.genres # <<>>
              THEN pc' = "genre" /\ gi' = 1
              ELSE IF NonBlank(query)
                   THEN pc' = "search" /\ gi' = 0
                   ELSE pc' = AfterPrimary(<<>>) /\ gi' = 0
    /\ tokens' = <<>>
    /\ UNCHANGED <<fn, query, page, all_data, candidates, filtered, top10, result,
                   outcome, error, calls, genre_file, anilist_file, ncalls>>

(***************************************************************************)
(* fetch_by_genre.                                                         *)
(***************************************************************************)
CurrentGenreKey == GenreKey(MAL_GENRES[parsed.genres[gi]], GenrePagesArg)

(* the genre loop of line 139 goes on, or is over *)
NextGenre(cands) ==
    IF gi < Len(parsed.genres)
    THEN pc' = "genre" /\ gi' = gi + 1
    ELSE pc' = AfterPrimary(cands) /\ gi' = gi

(* lines 61-65: the cache is loaded and looked up *)
FetchByGenreBegin ==
    /\ pc = "genre"
    /\ LET ld == _load_cache(genre_file)
           e == CallEntry("fetch_by_genre", Len(candidates))
       IN  IF ld.raised
           THEN /\ pc' = "idle"
                /\ outcome' = "error"
                /\ error' = "JSONDecodeError"
                /\ calls' = Append(calls, e)
                /\ UNCHANGED <<gi, page, all_data, candidates>>
           ELSE IF CurrentGenreKey \in DOMAIN ld.cache
                THEN LET data == ld.cache[CurrentGenreKey]
                     IN  /\ candidates' = candidates \o data
                         /\ calls' = Append(calls, [e EXCEPT !.hit = TRUE, !.got = Len(data)])
                         /\ NextGenre(candidates \o data)
                         /\ UNCHANGED <<page, all_data, outcome, error>>
                ELSE /\ pc' = "genre_page"
                     /\ page' = 1
                     /\ all_data' = <<>>
                     /\ calls' = Append(calls, e)
                     /\ UNCHANGED <<gi, candidates, outcome, error>>
    /\ UNCHANGED <<fn, query, tokens, parsed, filtered, top10, result,
                   genre_file, anilist_file, ncalls>>

(* lines 66-76: one page is answered; after the last one the list is       *)
(* cached and returned                                                     *)
FetchByGenrePage ==
    /\ pc = "genre_page"
    /\ \E resp \in GenrePages :
          LET data == all_data \o resp
              e == [LastCall EXCEPT !.reqs = @ + 1]
          IN  IF page < GenrePagesArg
              THEN /\ page' = page + 1
                   /\ all_data' = data
                   /\ calls' = UpdLast(e)
                   /\ UNCHANGED <<pc, gi, candidates, genre_file>>
              ELSE /\ genre_file' =
                          _save_cache(Put(_load_cache(genre_file).cache, CurrentGenreKey, data))
                   /\ candidates' = candidates \o data
                   /\ calls' = UpdLast([e EXCEPT !.got = Len(data)])
                   /\ NextGenre(candidates \o data)
                   /\ all_data' = data
                   /\ UNCHANGED page
    /\ UNCHANGED <<fn, query, tokens, parsed, filtered, top10, result, outcome,
                   error, anilist_file, ncalls>>

(***************************************************************************)
(* fetch_search_mal.                                                       *)
(***************************************************************************)
FetchSearchBegin ==
    /\ pc = "search"
    /\ pc' = "search_page"
    /\ page' = 1
    /\ all_data' = <<>>
    /\ calls' = Append(calls, CallEntry("fetch_search_mal", Len(candidates)))
    /\ UNCHANGED <<fn, query, tokens, parsed, gi, candidates, filtered, top10, result,
                   outcome, error, genre_file, anilist_file, ncalls>>

FetchSearchPage ==
    /\ pc = "search_page"
    /\ \E resp \in ListingPages :
          LET data == all_data \o resp
              e == [LastCall EXCEPT !.reqs = @ + 1]
          IN  IF page < SearchPagesArg
              THEN /\ page' = page + 1
                   /\ all_data' = data
                   /\ calls' = UpdLast(e)
                   /\ UNCHANGED <<pc, candidates>>
              ELSE /\ candidates' = data
                   /\ calls' = UpdLast([e EXCEPT !.got = Len(data)])
                   /\ pc' = AfterPrimary(data)
                   /\ all_data' = data
                   /\ UNCHANGED page
    /\ UNCHANGED <<fn, query, tokens, parsed, gi, filtered, top10, result, outcome,
                   error, genre_file, anilist_file, ncalls>>

(***************************************************************************)
(* fetch_anilist.                                                          *)
(***************************************************************************)
(* lines 102-105 *)
FetchAnilistBegin ==
    /\ pc = "anilist"
    /\ LET ld == _load_cache(anilist_file)
           key == AnilistKey(query)
           e == CallEntry("fetch_anilist", Len(candidates))
       IN  IF ld.raised
           THEN /\ pc' = "idle"
                /\ outcome' = "error"
                /\ error' = "JSONDecodeError"
                /\ calls' = Append(calls, e)
                /\ UNCHANGED candidates
           ELSE IF key \in DOMAIN ld.cache
                THEN /\ candidates' = ld.cache[key]
                     /\ calls' = Append(calls, [e EXCEPT !.hit = TRUE, !.got = Len(ld.cache[key])])
                     /\ pc' = AfterAnilist(ld.cache[key])
                     /\ UNCHANGED <<outcome, error>>
                ELSE /\ pc' = "anilist_req"
                     /\ calls' = Append(calls, e)
                     /\ UNCHANGED <<candidates, outcome, error>>
    /\ UNCHANGED <<fn, query, tokens, parsed, gi, page, all_data, filtered, top10,
                   result, genre_file, anilist_file, ncalls>>

(* lines 118-132: the GraphQL request is answered *)
FetchAnilistRequest ==
    /\ pc = "anilist_req"
    /\ \E media \in MediaLists :
          LET results == AnilistResults(media)
          IN  /\ anilist_file' =
                     _save_cache(Put(_load_cache(anilist_file).cache, AnilistKey(query), results))
              /\ candidates' = results
              /\ calls' = UpdLast([LastCall EXCEPT !.reqs = @ + 1, !.got = Len(results)])
              /\ pc' = AfterAnilist(results)
    /\ UNCHANGED <<fn, query, tokens, parsed, gi, page, all_data, filtered, top10,
                   result, outcome, error, genre_file, ncalls>>

(***************************************************************************)
(* fetch_top_anime.                                                        *)
(***************************************************************************)
FetchTopBegin ==
    /\ pc = "top"
    /\ pc' = "top_page"
    /\ page' = 1
    /\ all_data' = <<>>
    /\ calls' = Append(calls, CallEntry("fetch_top_anime", Len(candidates)))
    /\ UNCHANGED <<fn, query, tokens, parsed, gi, candidates, filtered, top10, result,
                   outcome, error, genre_file, anilist_file, ncalls>>

FetchTopPage ==
    /\ pc = "top_page"
    /\ \E resp \in TopPages :
          LET data == all_data \o resp
              e == [LastCall EXCEPT !.reqs = @ + 1]
          IN  IF page < TopPagesArg
              THEN /\ page' = page + 1
                   /\ all_data' = data
                   /\ calls' = UpdLast(e)
                   /\ UNCHANGED <<pc, candidates>>
              ELSE /\ candidates' = data
                   /\ calls' = UpdLast([e EXCEPT !.got = Len(data)])
                   /\ pc' = IF fn = "recommend_anime" THEN "post" ELSE "default_rank"
                   /\ all_data' = data
                   /\ UNCHANGED page
    /\ UNCHANGED <<fn, query, tokens, parsed, gi, filtered, top10, result, outcome,
                   error, genre_file, anilist_file, ncalls>>

(* a failed request taken for an empty answer: the call goes on to the    *)
(* trending listing                                                        *)
HttpErrorFallsThrough ==
    /\ pc \in {"genre_page", "search_page", "anilist_req"}
    /\ calls' = UpdLast([LastCall EXCEPT !.reqs = @ + 1, !.failed = TRUE])
    /\ pc' = "top"
    /\ UNCHANGED <<fn, query, tokens, parsed, gi, page, all_data, candidates, filtered,
                   top10, result, outcome, error, genre_file, anilist_file, ncalls>>

(***************************************************************************)
(* A remote request fails: raise_for_status (or the transport) raises, and *)
(* nothing between the fetcher and the caller of the entry point catches.  *)
(***************************************************************************)
HttpError ==
    /\ pc \in {"genre_page", "search_page", "anilist_req", "top_page"}
    /\ calls' = UpdLast([LastCall EXCEPT !.reqs = @ + 1, !.failed = TRUE])
    /\ pc' = "idle"
    /\ outcome' = "error"
    /\ error' = "HTTPError"
    /\ UNCHANGED <<fn, query, tokens, parsed, gi, page, all_data, candidates, filtered,
                   top10, result, genre_file, anilist_file, ncalls>>

(***************************************************************************)
(* Ranking and return.                                                     *)
(***************************************************************************)
(* recommend_anime, lines 148-170 *)
PostProcess ==
    /\ pc = "post"
    /\ LET s == Survivors(candidates, parsed)
       IN  /\ filtered' = s
           /\ \E r \in Rankings(s) :
                 /\ top10' = r
                 /\ result' = Project(r)
    /\ pc' = "idle"
    /\ outcome' = "ok"
    /\ UNCHANGED <<fn, query, tokens, parsed, gi, page, all_data, candidates, error,
                   calls, genre_file, anilist_file, ncalls>>

(* get_default_recs, lines 175-177 *)
DefaultRank ==
    /\ pc = "default_rank"
    /\ filtered' = candidates
    /\ \E r \in Rankings(candidates) :
          /\ top10' = r
          /\ result' = Project(r)
    /\ pc' = "idle"
    /\ outcome' = "ok"
    /\ UNCHANGED <<fn, query, tokens, parsed, gi, page, all_data, candidates, error,
                   calls, genre_file, anilist_file, ncalls>>

Next ==
    \/ CallRecommend
    \/ CallDefault
    \/ ExtractKeywords
    \/ ParseRequest
    \/ FetchByGenreBegin
    \/ FetchByGenrePage
    \/ FetchSearchBegin
    \/ FetchSearchPage
    \/ FetchAnilistBegin
    \/ FetchAnilistRequest
    \/ FetchTopBegin
    \/ FetchTopPage
    \/ HttpError
    \/ PostProcess
    \/ DefaultRank

Spec == Init /\ [][Next]_vars

(***************************************************************************)
(* Vocabulary of the properties.                                           *)
(***************************************************************************)
Returned(f) == pc = "idle" /\ outcome = "ok" /\ fn = f

(* The title text before its first ':' or '-', trimmed and lowercased *)
FirstSep(t) ==
    IF \E i \in 1..Len(t) : t[i] \in {":", "-"}
    THEN CHOOSE i \in 1..Len(t) : t[i] \in {":", "-"} /\ \A j \in 1..(i - 1) : t[j] \notin {":", "-"}
    ELSE Len(t) + 1
NormBase(t) == StrLower(Strip(SubSeq(t, 1, FirstSep(t) - 1)))

(* A score with a missing one counted as 0 *)
Eff(a) == IF a.score = None THEN 0 ELSE a.score

Count(s, x) == Cardinality({i \in 1..Len(s) : s[i] = x})

(* The items returned are the ranked records, in order *)
ResultFromTop10 ==
    /\ Len(result) = Len(top10)
    /\ \A i \in 1..Len(result) :
          result[i].title = top10[i].title /\ result[i].url = top10[i].url

Fetchers(i) == calls[i].fetcher
HasCall(f) == \E i \in 1..Len(calls) : Fetchers(i) = f
QueryNonBlank == \E i \in 1..Len(query) : query[i] # " "

(***************************************************************************)
(* C1: every list recommend_anime or get_default_recs returns has at most  *)
(* 10 items, each a {title, url} pair.                                     *)
(***************************************************************************)
C1_AtMostTen ==
    outcome = "ok" =>
        /\ Len(result) <= 10
        /\ \A i \in 1..Len(result) : DOMAIN result[i] = {"title", "url"}

C1_Witness ==
    /\ Returned("recommend_anime")
    /\ Len(filtered) > 10
    /\ Len(result) = 10

(***************************************************************************)
(* C2: in the list recommend_anime returns no two items share a url and no *)
(* two share a normalized base title.                                      *)
(***************************************************************************)
C2_NoDuplicates ==
    Returned("recommend_anime") =>
        LET base == [i \in 1..Len(result) |-> NormBase(result[i].title)]
        IN  \A i, j \in 1..Len(result) :
                i < j => result[i].url # result[j].url /\ base[i] # base[j]

C2_Witness ==
    /\ Returned("recommend_anime")
    /\ Len(result) >= 2
    /\ \E i, j \in 1..Len(candidates) : i # j /\ candidates[i].url = candidates[j].url
    /\ \E i, j \in 1..Len(candidates) :
          /\ candidates[i].url # candidates[j].url
          /\ candidates[i].title # candidates[j].title
          /\ NormBase(candidates[i].title) = NormBase(candidates[j].title)

(***************************************************************************)
(* C3: with max_episodes = N every returned item comes from a record whose *)
(* episode count is known and at most N.                                   *)
(***************************************************************************)
C3_EpisodeCeiling ==
    (Returned("recommend_anime") /\ parsed.max_episodes # None) =>
        /\ ResultFromTop10
        /\ \A i \in 1..Len(top10) :
              top10[i].episodes # None /\ top10[i].episodes <= parsed.max_episodes

C3_Witness ==
    /\ Returned("recommend_anime")
    /\ parsed.max_episodes = 20
    /\ HasCall("fetch_top_anime")
    /\ result # <<>>
    /\ \E i \in 1..Len(candidates) : candidates[i].episodes = None
    /\ \E i \in 1..Len(candidates) : candidates[i].episodes > 20

(***************************************************************************)
(* C4: with rating_pref = "hidden gem" every returned item comes from a    *)
(* record whose score is known and strictly below 7.0.                     *)
(***************************************************************************)
C4_HiddenGem ==
    (Returned("recommend_anime") /\ parsed.rating_pref = "hidden gem") =>
        /\ ResultFromTop10
        /\ \A i \in 1..Len(top10) : top10[i].score # None /\ top10[i].score < 700

C4_Witness ==
    /\ Returned("recommend_anime")
    /\ parsed.rating_pref = "hidden gem"
    /\ result # <<>>
    /\ \E i \in 1..Len(candidates) : candidates[i].score = None
    /\ \E i \in 1..Len(candidates) : candidates[i].score = 700

(***************************************************************************)
(* C5: the returned list is in non-increasing order of score (missing      *)
(* counted as 0) and is the top of that order among the candidates left    *)
(* after deduplication and filtering, whatever the shuffle did.            *)
(***************************************************************************)
C5_RankedTop ==
    outcome = "ok" =>
        /\ ResultFromTop10
        /\ Len(top10) = (IF Len(filtered) < 10 THEN Len(filtered) ELSE 10)
        /\ \A i \in 1..Len(top10) : Count(top10, top10[i]) <= Count(filtered, top10[i])
        /\ \A i, j \in 1..Len(top10) : i < j => Eff(top10[i]) >= Eff(top10[j])
        /\ \A k \in 1..Len(filtered) :
              Count(filtered, filtered[k]) > Count(top10, filtered[k]) =>
                  \A i \in 1..Len(top10) : Eff(filtered[k]) <= Eff(top10[i])

C5_Witness ==
    /\ outcome = "ok"
    /\ Len(filtered) > 10
    /\ \E i, j \in 1..Len(filtered) : i < j /\ Eff(filtered[i]) < Eff(filtered[j])
    /\ \E k \in 1..Len(filtered) :
          /\ Count(top10, filtered[k]) = 0
          /\ Eff(filtered[k]) = Eff(top10[Len(top10)])

(***************************************************************************)
(* C6: recommend_anime consults genre fetch or else primary search, then   *)
(* the secondary catalog, then trending, each later source only when all   *)
(* earlier ones produced no candidates (and, for the secondary catalog,    *)
(* the query is non-blank); and it does consult them in those cases.       *)
(***************************************************************************)
C6_FallbackOrder ==
    fn = "recommend_anime" =>
        /\ \A i \in 1..Len(calls) :
              /\ Fetchers(i) = "fetch_by_genre" =>
                    /\ parsed.genres # <<>>
                    /\ \A j \in 1..(i - 1) : Fetchers(j) = "fetch_by_genre"
              /\ Fetchers(i) = "fetch_search_mal" =>
                    i = 1 /\ parsed.genres = <<>> /\ QueryNonBlank
              /\ Fetchers(i) = "fetch_anilist" =>
                    /\ QueryNonBlank
                    /\ calls[i].before = 0
                    /\ \A j \in 1..(i - 1) :
                          Fetchers(j) \in {"fetch_by_genre", "fetch_search_mal"} /\ calls[j].got = 0
              /\ Fetchers(i) = "fetch_top_anime" =>
                    /\ calls[i].before = 0
                    /\ i = Len(calls)
                    /\ \A j \in 1..(i - 1) : calls[j].got = 0
        /\ outcome = "ok" =>
              /\ parsed.genres # <<>> => Fetchers(1) = "fetch_by_genre"
              /\ (parsed.genres = <<>> /\ QueryNonBlank) => Fetchers(1) = "fetch_search_mal"
              /\ (QueryNonBlank /\ \A i \in 1..Len(calls) :
                      Fetchers(i) \in {"fetch_by_genre", "fetch_search_mal"} => calls[i].got = 0)
                    => HasCall("fetch_anilist")
              /\ (\A i \in 1..Len(calls) : Fetchers(i) # "fetch_top_anime" => calls[i].got = 0)
                    => HasCall("fetch_top_anime")

C6_Witness ==
    /\ Returned("recommend_anime")
    /\ Len(calls) = 3
    /\ Fetchers(1) = "fetch_search_mal" /\ calls[1].got = 0
    /\ Fetchers(2) = "fetch_anilist" /\ calls[2].got = 0
    /\ Fetchers(3) = "fetch_top_anime"

(***************************************************************************)
(* C7: for the query "romance under 20" the parser yields genres =         *)
(* ["romance"], max_episodes = 20 and rating_pref = None, in whichever     *)
(* order the extracted keywords come.  Stated here for the extractions     *)
(* that do contain "romance", "under" and "20".                            *)
(***************************************************************************)
C7_RomanceUnder20 ==
    [][ (/\ pc = "parse"
         /\ query = <<"romance", "under", "20">>
         /\ {"romance", "under", "20"} \subseteq Range(tokens))
        => parsed' = [genres |-> <<"romance">>, max_episodes |-> 20, rating_pref |-> NoPref]
      ]_vars

(***************************************************************************)
(* C8 as stated: cache load yields an empty mapping both for an absent and *)
(* for an unparsable file and never ends in an error, so the fetch goes on *)
(* to its remote request as on a cache miss.                               *)
(***************************************************************************)
C8_LoadNeverFails ==
    [][ /\ (pc = "genre" /\ genre_file.st # "ok")
              => (pc' = "genre_page" /\ outcome' = "running")
        /\ (pc = "anilist" /\ anilist_file.st # "ok")
              => (pc' = "anilist_req" /\ outcome' = "running")
      ]_vars

(***************************************************************************)
(* C8 amended: an absent cache file loads as the empty mapping and the     *)
(* fetch goes on as on a miss; an unparsable file makes the load raise,    *)
(* and the call ends in that error with no remote request issued and both  *)
(* files left as they were.                                                *)
(***************************************************************************)
C8_LoadAbsentOrRaise ==
    [][ /\ (pc = "genre" /\ genre_file.st = "absent")
              => (pc' = "genre_page" /\ outcome' = "running")
        /\ (pc = "anilist" /\ anilist_file.st = "absent")
              => (pc' = "anilist_req" /\ outcome' = "running")
        /\ (\/ pc = "genre" /\ genre_file.st = "malformed"
            \/ pc = "anilist" /\ anilist_file.st = "malformed")
              => /\ pc' = "idle"
                 /\ outcome' = "error"
                 /\ error' = "JSONDecodeError"
                 /\ result' = <<>>
                 /\ calls'[Len(calls')].reqs = 0
                 /\ UNCHANGED <<genre_file, anilist_file>>
      ]_vars

C8_Witness ==
    /\ outcome = "error"
    /\ error = "JSONDecodeError"
    /\ genre_file.st = "malformed"
    /\ anilist_file.st = "ok"
    /\ calls[Len(calls)].fetcher = "fetch_by_genre"

(***************************************************************************)
(* C9: when a remote request fails, the call ends in an error: the failed  *)
(* request is the last thing the call did, no list is returned, and the    *)
(* key being fetched gets no cache entry, even if earlier pages succeeded. *)
(***************************************************************************)
C9_FailureIsFatal ==
    \A i \in 1..Len(calls) :
        calls[i].failed =>
            /\ i = Len(calls)
            /\ pc = "idle"
            /\ outcome = "error"
            /\ result = <<>>
            /\ top10 = <<>>
            /\ Fetchers(i) = "fetch_by_genre" =>
                  <<MAL_GENRES[parsed.genres[gi]], 2>> \notin DOMAIN genre_file.map
            /\ Fetchers(i) = "fetch_anilist" =>
                  QueryLower(query) \notin DOMAIN anilist_file.map

C9_Witness ==
    /\ Len(calls) = 2
    /\ calls[1].got > 0
    /\ calls[2].fetcher = "fetch_by_genre"
    /\ calls[2].failed
    /\ calls[2].reqs = 2
    /\ all_data # <<>>
    /\ outcome = "error"

(***************************************************************************)
(* C10: the caches are read-through and append-only.  A fetch whose key is *)
(* cached returns the stored records without a remote request; what a      *)
(* fetch stores is what it returns; no step removes or changes an entry;   *)
(* fetch_by_genre writes only the genre cache and fetch_anilist only the   *)
(* other; fetch_search_mal and fetch_top_anime touch neither.              *)
(***************************************************************************)
C10_ReadThroughAppendOnly ==
    [][ /\ \A k \in DOMAIN genre_file.map :
              k \in DOMAIN genre_file'.map /\ genre_file'.map[k] = genre_file.map[k]
        /\ \A k \in DOMAIN anilist_file.map :
              k \in DOMAIN anilist_file'.map /\ anilist_file'.map[k] = anilist_file.map[k]
        /\ (pc = "genre" /\ <<MAL_GENRES[parsed.genres[gi]], 2>> \in DOMAIN genre_file.map)
              => /\ candidates' = candidates \o genre_file.map[<<MAL_GENRES[parsed.genres[gi]], 2>>]
                 /\ pc' # "genre_page"
                 /\ calls'[Len(calls')].reqs = 0
                 /\ outcome' = "running"
        /\ (pc = "anilist" /\ QueryLower(query) \in DOMAIN anilist_file.map)
              => /\ candidates' = anilist_file.map[QueryLower(query)]
                 /\ pc' # "anilist_req"
                 /\ calls'[Len(calls')].reqs = 0
                 /\ outcome' = "running"
        /\ genre_file' # genre_file
              => /\ pc = "genre_page"
                 /\ anilist_file' = anilist_file
                 /\ genre_file'.map[<<MAL_GENRES[parsed.genres[gi]], 2>>] = all_data'
                 /\ candidates' = candidates \o all_data'
        /\ anilist_file' # anilist_file
              => /\ pc = "anilist_req"
                 /\ genre_file' = genre_file
                 /\ anilist_file'.map[QueryLower(query)] = candidates'
        /\ pc \in {"search", "search_page", "top", "top_page", "default_rank"}
              => /\ UNCHANGED <<genre_file, anilist_file>>
                 /\ error' # "JSONDecodeError"
      ]_vars

C10_Witness ==
    /\ Returned("recommend_anime")
    /\ \E i \in 1..Len(calls) :
          calls[i].hit /\ calls[i].fetcher = "fetch_by_genre" /\ calls[i].got > 0
    /\ Cardinality(DOMAIN genre_file.map) = 2

====
